---- MODULE Spec2Model ----
(***************************************************************************)
(* reqlogd: a process that logs every inbound HTTP request to a MySQL      *)
(* table.  The model covers main's startup sequence (dbConfFromEnv,        *)
(* tlsConfig, newDB, ListenAndServe) and the request handler serveReqLog   *)
(* with its helper jsonError, run by one goroutine per request against a   *)
(* shared store handle.                                                    *)
(***************************************************************************)
EXTENDS Integers, Sequences, FiniteSets, TLC

\* ------------------------------------------------------------------ bounds
\* Requests handled (concurrently) in the serving specification.
MaxReqs == 2
\* Requests handled in the whole-process specification (startup + serving).
StartupReqs == 1
\* Largest number of body bytes a request delivers.
MaxBody == 1
\* Largest instant the injected clock reaches.
MaxClock == 1

VARIABLES
    env,        \* the process environment: the set of variables that are set
    mainPc,     \* main's position: start, conf, db, listening, exited
    mainErr,    \* the error main died with (log.Fatal), "" if none
    dconf,      \* the *mysql.Config dbConfFromEnv returned
    lookedUp,   \* the environment variables os.LookupEnv was called on
    tlsCalls,   \* number of calls of tlsConfig
    registry,   \* TLS profiles registered with the mysql driver
    dbOpen,     \* sql.Open has returned a handle
    dbPinged,   \* the handle's Ping has succeeded
    clock,      \* the instant s.now() returns
    store,      \* the request table: rows in insertion order
    nextId,     \* the table's AUTO_INCREMENT counter
    pc,         \* per request: idle, reading, inserting, done
    req,        \* per request: the *http.Request being handled
    arrival,    \* per request: the instant the handler was entered
    loc,        \* per request: serveReqLog's locals (the insert's arguments)
    body,       \* per request: what r.Body delivered to ioutil.ReadAll
    attempts,   \* per request: number of ExecContext calls made
    outcome,    \* per request: the error ExecContext returned ("" for nil)
    resp        \* per request: the http.ResponseWriter's state

mainVars == <<env, mainPc, mainErr, dconf, lookedUp, tlsCalls, registry, dbOpen, dbPinged>>
storeVars == <<store, nextId>>
reqVars == <<pc, req, arrival, loc, body, attempts, outcome, resp>>
vars == <<mainVars, clock, storeVars, reqVars>>

\* ------------------------------------------------------- startup: errors
errCertPath == "DB_CA_CERT_PATH is required and was not set"
errClientCertPath == "DB_CLIENT_CERT_PATH is required and was not set"
errClientKeyPath == "DB_CLIENT_KEY_PATH is required and was not set"
errCertPEM == "trusted conn with DB not established, cannot parse cert PEM"
errReadFile == "open: no such file or directory"
errKeyPair == "tls: failed to load X509 key pair"

CertVars == {"DB_CA_CERT_PATH", "DB_CLIENT_CERT_PATH", "DB_CLIENT_KEY_PATH"}
EnvVars == {"DB_SKIP_TLS"} \cup CertVars

\* What the three files hold: can the CA bundle be read, does it hold a
\* certificate, do the client certificate and key load as a pair.
Files == [caReadable : BOOLEAN, caPEM : BOOLEAN, keyPair : BOOLEAN]

\* tlsConfig: the profile name it registers, or the error.
tlsConfig(f) ==
    IF ~f.caReadable THEN [key |-> "", err |-> errReadFile]
    ELSE IF ~f.caPEM THEN [key |-> "", err |-> errCertPEM]
    ELSE IF ~f.keyPair THEN [key |-> "", err |-> errKeyPair]
    ELSE [key |-> "custom", err |-> ""]

\* dbConfFromEnv with the client certificate's check returning the CA
\* path's error (a copied line left unedited).
dbConfFromEnvCopiedErr(e, f) ==
    IF "DB_SKIP_TLS" \in e
    THEN [ok |-> TRUE, err |-> "", TLSConfig |-> "",
          read |-> {"DB_SKIP_TLS"}, tls |-> 0]
    ELSE IF "DB_CA_CERT_PATH" \notin e
    THEN [ok |-> FALSE, err |-> errCertPath, TLSConfig |-> "",
          read |-> {"DB_SKIP_TLS", "DB_CA_CERT_PATH"}, tls |-> 0]
    ELSE IF "DB_CLIENT_CERT_PATH" \notin e
    THEN [ok |-> FALSE, err |-> errCertPath, TLSConfig |-> "",
          read |-> {"DB_SKIP_TLS", "DB_CA_CERT_PATH", "DB_CLIENT_CERT_PATH"}, tls |-> 0]
    ELSE IF "DB_CLIENT_KEY_PATH" \notin e
    THEN [ok |-> FALSE, err |-> errClientKeyPath, TLSConfig |-> "",
          read |-> EnvVars, tls |-> 0]
    ELSE LET t == tlsConfig(f) IN
         [ok |-> t.err = "", err |-> t.err, TLSConfig |-> t.key,
          read |-> EnvVars, tls |-> 1]

\* dbConfFromEnv with the DB_SKIP_TLS test moved below the three path
\* lookups: the paths are required even when TLS is switched off.
dbConfFromEnvLateSkip(e, f) ==
    IF "DB_CA_CERT_PATH" \notin e
    THEN [ok |-> FALSE, err |-> errCertPath, TLSConfig |-> "",
          read |-> {"DB_CA_CERT_PATH"}, tls |-> 0]
    ELSE IF "DB_CLIENT_CERT_PATH" \notin e
    THEN [ok |-> FALSE, err |-> errClientCertPath, TLSConfig |-> "",
          read |-> {"DB_CA_CERT_PATH", "DB_CLIENT_CERT_PATH"}, tls |-> 0]
    ELSE IF "DB_CLIENT_KEY_PATH" \notin e
    THEN [ok |-> FALSE, err |-> errClientKeyPath, TLSConfig |-> "",
          read |-> CertVars, tls |-> 0]
    ELSE IF "DB_SKIP_TLS" \in e
    THEN [ok |-> TRUE, err |-> "", TLSConfig |-> "", read |-> EnvVars, tls |-> 0]
    ELSE LET t == tlsConfig(f) IN
         [ok |-> t.err = "", err |-> t.err, TLSConfig |-> t.key,
          read |-> EnvVars, tls |-> 1]

\* dbConfFromEnv: the lookups it makes in order, and what it returns.
\* ok: a config was returned; TLSConfig: the profile name in it; read: the
\* variables looked up; tls: number of tlsConfig calls.
dbConfFromEnv(e, f) ==
    IF "DB_SKIP_TLS" \in e
    THEN [ok |-> TRUE, err |-> "", TLSConfig |-> "",
          read |-> {"DB_SKIP_TLS"}, tls |-> 0]
    ELSE IF "DB_CA_CERT_PATH" \notin e
    THEN [ok |-> FALSE, err |-> errCertPath, TLSConfig |-> "",
          read |-> {"DB_SKIP_TLS", "DB_CA_CERT_PATH"}, tls |-> 0]
    ELSE IF "DB_CLIENT_CERT_PATH" \notin e
    THEN [ok |-> FALSE, err |-> errClientCertPath, TLSConfig |-> "",
          read |-> {"DB_SKIP_TLS", "DB_CA_CERT_PATH", "DB_CLIENT_CERT_PATH"}, tls |-> 0]
    ELSE IF "DB_CLIENT_KEY_PATH" \notin e
    THEN [ok |-> FALSE, err |-> errClientKeyPath, TLSConfig |-> "",
          read |-> EnvVars, tls |-> 0]
    ELSE LET t == tlsConfig(f) IN
         [ok |-> t.err = "", err |-> t.err, TLSConfig |-> t.key,
          read |-> EnvVars, tls |-> 1]

\* newDB without the check of Ping's error.
newDBNoPing(openOk, pingOk) ==
    IF ~openOk THEN "newDB Open" ELSE ""

\* newDB: sql.Open, then Ping; the error it returns ("" for nil).
newDB(openOk, pingOk) ==
    IF ~openOk THEN "newDB Open"
    ELSE IF ~pingOk THEN "newDB Ping"
    ELSE ""

\* ------------------------------------------------ the request, the record
\* The requests clients send: a plain GET in origin form, the same GET over
\* TLS, and a POST over TLS in absolute form (proxy style) whose URL names
\* another host and scheme than the connection.
HeaderKeys == <<"Accept-Encoding", "User-Agent">>

PlainGet ==
    [TLS |-> FALSE, Host |-> "a.test",
     URL |-> [Scheme |-> "", Host |-> "", Path |-> "/", RawQuery |-> ""],
     Method |-> "GET", RemoteAddr |-> "127.0.0.1:5000", Proto |-> "HTTP/1.1",
     Header |-> [k \in {"Accept-Encoding", "User-Agent"} |->
                    IF k = "User-Agent" THEN <<"Go-http-client/1.1">> ELSE <<"gzip">>]]

TLSPost ==
    [TLS |-> TRUE, Host |-> "b.test",
     URL |-> [Scheme |-> "http", Host |-> "proxy.test", Path |-> "/x", RawQuery |-> "q=1"],
     Method |-> "POST", RemoteAddr |-> "10.0.0.2:6000", Proto |-> "HTTP/1.0",
     Header |-> [k \in {"User-Agent"} |-> <<"curl/7.1">>]]

TLSGet == [PlainGet EXCEPT !.TLS = TRUE]

Requests == {PlainGet, TLSGet, TLSPost}

NoRequest ==
    [TLS |-> FALSE, Host |-> "", URL |-> [Scheme |-> "", Host |-> "", Path |-> "", RawQuery |-> ""],
     Method |-> "", RemoteAddr |-> "", Proto |-> "", Header |-> [k \in {} |-> <<>>]]

\* r.Body: nil, or a reader that delivers n bytes and then ends with EOF
\* (err = FALSE) or with a read error (err = TRUE).
NilBody == [nil |-> TRUE, n |-> 0, err |-> FALSE]
Bodies == {NilBody} \cup [nil : {FALSE}, n : 0..MaxBody, err : BOOLEAN]

\* time.Time: an instant and a location.  s.now() returns local time.
Now(c) == [instant |-> c, zone |-> "Local"]
UTC(t) == [t EXCEPT !.zone = "UTC"]
ZeroTime == [instant |-> 0, zone |-> ""]

\* url.URL.String(): scheme ":" "//" host path "?" query, as a token list.
URLString(u) ==
    (IF u.Scheme # "" THEN <<u.Scheme, ":">> ELSE <<>>)
    \o (IF u.Scheme # "" \/ u.Host # "" THEN <<"//", u.Host>> ELSE <<>>)
    \o <<u.Path>>
    \o (IF u.RawQuery # "" THEN <<"?", u.RawQuery>> ELSE <<>>)

\* RequestURL without the r.TLS test: the scheme is always http.
RequestURLPlain(r) ==
    [r.URL EXCEPT !.Host = r.Host, !.Scheme = "http"]

\* serveReqLog, lines 172-178: the copy of r.URL with Host and Scheme set.
RequestURL(r) ==
    [r.URL EXCEPT !.Host = r.Host,
                  !.Scheme = IF r.TLS THEN "https" ELSE "http"]

\* fmt.Sprint(r.Header): "map[" k ":[" v ... "]" ... "]", keys in sorted order.
RECURSIVE SprintKeys(_, _)
SprintKeys(h, i) ==
    IF i > Len(HeaderKeys) THEN <<>>
    ELSE (IF HeaderKeys[i] \in DOMAIN h
          THEN <<HeaderKeys[i], ":[">> \o h[HeaderKeys[i]] \o <<"]">> ELSE <<>>)
         \o SprintKeys(h, i + 1)
SprintHeader(h) == <<"map[">> \o SprintKeys(h, 1) \o <<"]">>

\* BodyLength with length left at 0 when ReadAll returned an error.
BodyLengthZeroOnErr(b) == IF b.nil \/ b.err THEN 0 ELSE b.n

\* serveReqLog, lines 183-190: length is len(b) of what ReadAll returned,
\* whether or not it also returned an error.
BodyLength(b) == IF b.nil THEN 0 ELSE b.n

NoLocals ==
    [recievedAt |-> ZeroTime, url |-> <<>>, method |-> "", remote |-> "",
     headers |-> <<>>, length |-> 0, protocol |-> ""]

\* serveReqLog, lines 171-182: the locals set before the body is read.
Capture(r, c) ==
    [recievedAt |-> UTC(Now(c)), url |-> URLString(RequestURL(r)),
     method |-> r.Method, remote |-> r.RemoteAddr,
     headers |-> SprintHeader(r.Header), length |-> 0, protocol |-> ""]

\* serveReqLog, lines 193-197: the arguments passed to ExecContext, given
\* the locals and the clock at the time of the call.
InsertArgs(l, c) ==
    <<l.recievedAt, l.url, l.method, l.remote, l.headers, l.length, l.protocol>>

\* ------------------------------------------------------------- the store
\* The request table: insert appends a row with the next AUTO_INCREMENT id.
StoreErrors == {"context canceled", "driver: bad connection"}

Row(id, a) ==
    [id |-> id, rat |-> a[1], url |-> a[2], method |-> a[3], remote |-> a[4],
     headers |-> a[5], length |-> a[6], protocol |-> a[7]]

\* Insert as "insert ... where not exists": a row equal to an existing one
\* in every column but id is not added.
InsertIfAbsent(rows, id, a) ==
    IF \E k \in 1..Len(rows) : rows[k] = Row(rows[k].id, a)
    THEN rows ELSE Append(rows, Row(id, a))

\* db.ExecContext on success: the table after the insert.
Insert(rows, id, a) == Append(rows, Row(id, a))

\* ------------------------------------------------------ the response writer
\* http.ResponseWriter: WriteHeader after the header was written is a no-op;
\* Write writes the header with 200 first if it was not written.
NewWriter == [wroteHeader |-> FALSE, status |-> 0, data |-> <<>>]

WriteHeader(w, code) ==
    IF w.wroteHeader THEN w
    ELSE [w EXCEPT !.wroteHeader = TRUE, !.status = code]

Write(w, d) ==
    LET w1 == WriteHeader(w, 200) IN [w1 EXCEPT !.data = Append(@, d)]

\* encoding/json: an object of the struct's exported fields (those whose
\* name starts with an upper-case letter); a field is name, value.
UpperCase == {"A", "B", "C", "D", "E", "F", "G", "H", "I", "J", "K", "L", "M",
              "N", "O", "P", "Q", "R", "S", "T", "U", "V", "W", "X", "Y", "Z"}
Exported(fld) == fld.name[1] \in UpperCase
Encode(v) == [json |-> "object", fields |-> SelectSeq(v, Exported)]

\* fmt.Sprintf("internal error: %v", err)
ErrorMsg(err) == <<"internal error: ", err>>

\* jsonError: encode struct{ msg string } to w, then w.WriteHeader(code).
jsonError(w, msg, code) ==
    WriteHeader(Write(w, Encode(<<[name |-> <<"m", "s", "g">>, value |-> msg]>>)), code)

\* Respond with a body written on success as well.
RespondOkBody(w, err) ==
    LET w1 == IF err # "" THEN jsonError(w, ErrorMsg(err), 500) ELSE Write(w, "ok")
    IN WriteHeader(w1, 200)

\* serveReqLog, lines 198-203, and the server finishing the response when
\* the handler returns (status 200 if the handler wrote nothing).
Respond(w, err) ==
    LET w1 == IF err # "" THEN jsonError(w, ErrorMsg(err), 500) ELSE w
    IN WriteHeader(w1, 200)

\* AfterInsert with log.Fatalf in place of log.Printf: the process exits.
AfterInsertFatal(m, err) == IF err # "" THEN "exited" ELSE m

\* serveReqLog, line 199: an insert error is logged with log.Printf and the
\* process goes on; the position of main after a handler saw err.
AfterInsert(m, err) == m

\* ---------------------------------------------------------------- main
\* main, lines 40-43: dbConfFromEnv, log.Fatal on error.
MainConf ==
    /\ mainPc = "start"
    /\ \E f \in Files :
         LET c == dbConfFromEnv(env, f) IN
         /\ lookedUp' = c.read
         /\ tlsCalls' = c.tls
         /\ registry' = IF c.TLSConfig # "" THEN {c.TLSConfig} ELSE {}
         /\ dconf' = [ok |-> c.ok, TLSConfig |-> c.TLSConfig]
         /\ mainErr' = c.err
         /\ mainPc' = IF c.ok THEN "conf" ELSE "exited"
    /\ UNCHANGED <<env, dbOpen, dbPinged, clock, storeVars, reqVars>>

\* main, lines 44-47: newDB, log.Fatal on error.
MainNewDB ==
    /\ mainPc = "conf"
    /\ \E openOk \in BOOLEAN, pingOk \in BOOLEAN :
         LET err == newDB(openOk, pingOk) IN
         /\ dbOpen' = openOk
         /\ dbPinged' = (openOk /\ pingOk)
         /\ mainErr' = err
         /\ mainPc' = IF err = "" THEN "db" ELSE "exited"
    /\ UNCHANGED <<env, dconf, lookedUp, tlsCalls, registry, clock, storeVars, reqVars>>

\* main, lines 49-53: the handler is registered and ListenAndServe called.
MainListen ==
    /\ mainPc = "db"
    /\ mainPc' = "listening"
    /\ UNCHANGED <<env, mainErr, dconf, lookedUp, tlsCalls, registry, dbOpen, dbPinged,
                   clock, storeVars, reqVars>>

\* --------------------------------------------------------------- serving
\* Time passes.
Tick ==
    /\ clock < MaxClock
    /\ clock' = clock + 1
    /\ UNCHANGED <<mainVars, storeVars, reqVars>>

\* The server dispatches the i-th request to arrive to serveReqLog, which
\* runs up to the read of the body (lines 170-182).
Accept(i) ==
    /\ mainPc = "listening"
    /\ pc[i] = "idle"
    /\ \A j \in DOMAIN pc : j < i => pc[j] # "idle"
    /\ \E r \in Requests :
         /\ req' = [req EXCEPT ![i] = r]
         /\ loc' = [loc EXCEPT ![i] = Capture(r, clock)]
    /\ arrival' = [arrival EXCEPT ![i] = clock]
    /\ pc' = [pc EXCEPT ![i] = "reading"]
    /\ UNCHANGED <<mainVars, clock, storeVars, body, attempts, outcome, resp>>

\* serveReqLog, lines 183-191: the body is drained (nothing to drain when
\* r.Body is nil), then protocol is set.
ReadBody(i) ==
    /\ mainPc = "listening"
    /\ pc[i] = "reading"
    /\ \E b \in Bodies :
         /\ body' = [body EXCEPT ![i] = b]
         /\ loc' = [loc EXCEPT ![i].length = BodyLength(b),
                               ![i].protocol = req[i].Proto]
    /\ pc' = [pc EXCEPT ![i] = "inserting"]
    /\ UNCHANGED <<mainVars, clock, storeVars, req, arrival, attempts, outcome, resp>>

\* serveReqLog, lines 193-203: the insert is issued and returns nil or an
\* error; the handler answers and returns, its request and locals are gone.
Exec(i) ==
    /\ mainPc = "listening"
    /\ pc[i] = "inserting"
    /\ \E e \in {""} \cup StoreErrors :
         /\ IF e = ""
            THEN /\ store' = Insert(store, nextId, InsertArgs(loc[i], clock))
                 /\ nextId' = nextId + 1
            ELSE UNCHANGED storeVars
         /\ outcome' = [outcome EXCEPT ![i] = e]
         /\ resp' = [resp EXCEPT ![i] = Respond(resp[i], e)]
         /\ mainPc' = AfterInsert(mainPc, e)
    /\ attempts' = [attempts EXCEPT ![i] = @ + 1]
    /\ pc' = [pc EXCEPT ![i] = "done"]
    /\ req' = [req EXCEPT ![i] = NoRequest]
    /\ loc' = [loc EXCEPT ![i] = NoLocals]
    /\ body' = [body EXCEPT ![i] = NilBody]
    /\ arrival' = [arrival EXCEPT ![i] = 0]
    /\ UNCHANGED <<env, mainErr, dconf, lookedUp, tlsCalls, registry, dbOpen, dbPinged, clock>>

\* ---------------------------------------------------------- specifications
InitReqs(n) ==
    /\ clock = 0
    /\ store = <<>>
    /\ nextId = 1
    /\ pc = [i \in 1..n |-> "idle"]
    /\ req = [i \in 1..n |-> NoRequest]
    /\ arrival = [i \in 1..n |-> 0]
    /\ loc = [i \in 1..n |-> NoLocals]
    /\ body = [i \in 1..n |-> NilBody]
    /\ attempts = [i \in 1..n |-> 0]
    /\ outcome = [i \in 1..n |-> ""]
    /\ resp = [i \in 1..n |-> NewWriter]

\* The process starts in any environment; StartupReqs clients will call.
Init ==
    /\ env \in SUBSET EnvVars
    /\ mainPc = "start"
    /\ mainErr = ""
    /\ dconf = [ok |-> FALSE, TLSConfig |-> ""]
    /\ lookedUp = {}
    /\ tlsCalls = 0
    /\ registry = {}
    /\ dbOpen = FALSE
    /\ dbPinged = FALSE
    /\ InitReqs(StartupReqs)

\* The process as main leaves it when started with DB_SKIP_TLS alone and a
\* reachable store: listening; MaxReqs clients will call.
InitServe ==
    /\ env = {"DB_SKIP_TLS"}
    /\ mainPc = "listening"
    /\ mainErr = ""
    /\ dconf = [ok |-> TRUE, TLSConfig |-> ""]
    /\ lookedUp = {"DB_SKIP_TLS"}
    /\ tlsCalls = 0
    /\ registry = {}
    /\ dbOpen = TRUE
    /\ dbPinged = TRUE
    /\ InitReqs(MaxReqs)

NextServe ==
    \/ Tick
    \/ \E i \in DOMAIN pc : Accept(i)
    \/ \E i \in DOMAIN pc : ReadBody(i)
    \/ \E i \in DOMAIN pc : Exec(i)

Next ==
    \/ MainConf
    \/ MainNewDB
    \/ MainListen
    \/ NextServe

Spec == Init /\ [][Next]_vars

SpecServe == InitServe /\ [][NextServe]_vars

\* ------------------------------------------------------------------ claims
Ids == DOMAIN pc
Failed(i) == pc[i] = "done" /\ outcome[i] # ""
Succeeded(i) == pc[i] = "done" /\ outcome[i] = ""
\* Exec(i) has just been taken.
Returned(i) == pc[i] = "inserting" /\ pc'[i] = "done"
LastRow == store[Len(store)]

\* C1: a request whose insert failed is answered with status 500 and a
\* JSON body.
C1_FailureAnswers500 ==
    \A i \in Ids : Failed(i) =>
        /\ resp[i].status = 500
        /\ Len(resp[i].data) = 1
        /\ resp[i].data[1].json = "object"

\* C2: the JSON body written for a failed insert has a field carrying the
\* message "internal error: <err>"; it is not an empty object.
C2_BodyCarriesMessage ==
    \A i \in Ids : Failed(i) =>
        \E k \in 1..Len(resp[i].data) :
            \E f \in 1..Len(resp[i].data[k].fields) :
                resp[i].data[k].fields[f].value = ErrorMsg(outcome[i])

C4_SuccessAnswers200Empty ==
    \A i \in Ids :
        /\ Succeeded(i) => /\ resp[i].wroteHeader
                           /\ resp[i].status = 200
                           /\ resp[i].data = <<>>
        /\ attempts[i] = 0 => resp[i] = NewWriter

C4_Witness ==
    \E i \in Ids : Succeeded(i) /\ resp[i].status = 200 /\ Len(store) >= 1

\* C5: the row an insert adds is the reference mapping of its request: rat
\* is the clock's value at the handler's entry, in UTC; method, remote and
\* protocol are the request's; url is scheme://Host path ?query with scheme
\* https exactly when the request came over TLS.
C5_InsertArgsAreMapping ==
    [][\A i \in Ids : Returned(i) /\ outcome'[i] = "" =>
         /\ Len(store') = Len(store) + 1
         /\ LastRow'.rat = [instant |-> arrival[i], zone |-> "UTC"]
         /\ LastRow'.method = req[i].Method
         /\ LastRow'.remote = req[i].RemoteAddr
         /\ LastRow'.protocol = req[i].Proto
         /\ LastRow'.url =
              <<IF req[i].TLS THEN "https" ELSE "http", ":", "//", req[i].Host,
                req[i].URL.Path>>
              \o (IF req[i].URL.RawQuery # "" THEN <<"?", req[i].URL.RawQuery>> ELSE <<>>)]_vars

\* C5 witness: the row of a TLS request with a query, inserted after the
\* clock had moved on from its arrival.
C5_Witness ==
    \E k \in 1..Len(store) :
        /\ store[k].url[1] = "https"
        /\ "?" \in {store[k].url[n] : n \in 1..Len(store[k].url)}
        /\ store[k].rat.instant < clock

\* C6: the table holds one row per request whose insert succeeded, rows are
\* only ever appended, and ids strictly increase in insertion order.
C6_OneRowPerInsert ==
    [][/\ Len(store') >= Len(store)
       /\ \A k \in 1..Len(store) : store'[k] = store[k]
       /\ Len(store') = Cardinality({i \in Ids : pc'[i] = "done" /\ outcome'[i] = ""})
       /\ \A k \in 1..Len(store') : \A l \in 1..Len(store') :
              k < l => store'[k].id < store'[l].id]_vars

\* C6 witness: two rows that differ in nothing but their id.
C6_Witness ==
    /\ Len(store) = 2
    /\ store[2] = [store[1] EXCEPT !.id = store[2].id]
    /\ store[1].id < store[2].id

CertErr(v) ==
    IF v = "DB_CA_CERT_PATH" THEN errCertPath
    ELSE IF v = "DB_CLIENT_CERT_PATH" THEN errClientCertPath
    ELSE errClientKeyPath

\* C7: with DB_SKIP_TLS unset and a certificate path unset, dbConfFromEnv
\* returns the error of a missing path, the three errors differ, and the
\* process exits with no store handle opened and without listening.
C7_MissingPathFailsStartup ==
    mainPc # "start" /\ "DB_SKIP_TLS" \notin env /\ CertVars \ env # {} =>
        /\ mainErr \in {CertErr(v) : v \in CertVars \ env}
        /\ Cardinality({CertErr(v) : v \in CertVars}) = 3
        /\ ~dconf.ok
        /\ mainPc = "exited"
        /\ ~dbOpen
        /\ \A i \in Ids : pc[i] = "idle"

C7_Witness ==
    /\ mainPc = "exited"
    /\ env = {"DB_CA_CERT_PATH"}
    /\ mainErr = errClientCertPath

\* C8: the process listens, and requests are handled, only after newDB
\* opened the handle and its ping succeeded; when the open or the ping
\* failed the process has exited with newDB's error and no request handled.
C8_ListenOnlyAfterPing ==
    /\ mainPc \in {"db", "listening"} => dbOpen /\ dbPinged
    /\ (\E i \in Ids : pc[i] # "idle") => dbOpen /\ dbPinged
    /\ dconf.ok /\ mainPc \notin {"start", "conf"} /\ ~dbPinged =>
         /\ mainPc = "exited"
         /\ mainErr = IF dbOpen THEN "newDB Ping" ELSE "newDB Open"
         /\ \A i \in Ids : pc[i] = "idle"

C8_Witness ==
    mainPc = "exited" /\ dbOpen /\ ~dbPinged /\ mainErr = "newDB Ping"

\* C9: with DB_SKIP_TLS set, dbConfFromEnv does not call tlsConfig, looks up
\* none of the three certificate paths, and returns a config without a TLS
\* profile and no error, whatever certificate paths are set.
C9_SkipTLSSkipsCerts ==
    mainPc # "start" /\ "DB_SKIP_TLS" \in env =>
        /\ tlsCalls = 0
        /\ lookedUp \cap CertVars = {}
        /\ dconf = [ok |-> TRUE, TLSConfig |-> ""]
        /\ registry = {}
        /\ mainErr \in {"", "newDB Open", "newDB Ping"}

C9_Witness ==
    mainPc = "listening" /\ env = {"DB_SKIP_TLS", "DB_CLIENT_KEY_PATH"}

\* C10: every request makes one insert attempt; requests with the same
\* insert outcome get the same response; a step of one request leaves the
\* outcome, response and attempts of the others and the rows already in
\* the table as they were; and the server goes on listening.
C10_RequestsIsolated ==
    [][/\ \A i \in Ids :
            /\ attempts'[i] <= 1
            /\ pc'[i] = "done" => attempts'[i] = 1
            /\ pc'[i] = pc[i] =>
                 /\ outcome'[i] = outcome[i]
                 /\ resp'[i] = resp[i]
                 /\ attempts'[i] = attempts[i]
                 /\ loc'[i] = loc[i]
            /\ \A j \in Ids :
                 pc'[i] = "done" /\ pc'[j] = "done" /\ outcome'[i] = outcome'[j]
                     => resp'[i] = resp'[j]
       /\ \A k \in 1..Len(store) : store'[k] = store[k]
       /\ mainPc' = "listening"]_vars

\* C10 witness: a request whose insert failed beside one whose insert
\* succeeded and whose row is in the table.
C10_Witness ==
    \E i \in Ids : \E j \in Ids :
        /\ i < j
        /\ Failed(i)
        /\ Succeeded(j)
        /\ Len(store) = 1

====
